---- MODULE Spec2Model ----
(***************************************************************************)
(* audio-bench: the three command-line scripts of the repository.          *)
(*                                                                         *)
(*   scripts/ab_project_create.py  the project scaffolder                  *)
(*   scripts/generate_report.py    the report orchestrator                 *)
(*   scripts/mv2db.py              the dB <-> mV/Pa converter              *)
(*                                                                         *)
(* The filesystem is part of the state.  A scaffolder invocation is a      *)
(* process whose steps are the system calls of create_project_structure,   *)
(* so that two invocations on the same project_dir can interleave.         *)
(***************************************************************************)
EXTENDS Integers, Sequences, FiniteSets, TLC

(***************************************************************************)
(* Bounds of the model.                                                    *)
(***************************************************************************)
\* number of ancestor directories of project_dir that are modelled
Depth == 2
\* number of scaffolder invocations in one behaviour (also the clock's range)
MaxRuns == 2

(***************************************************************************)
(* ab_project_create.py: the registry.                                     *)
(***************************************************************************)
PROJECT_TYPES ==
    [device_report |->
        [description |-> "Device testing and reporting project",
         subdirs     |-> <<"data", "scripts", "reports">>]]

\* the scaffolder processes (invocations that may run at the same time)
Procs == {1, 2}

(***************************************************************************)
(* The filesystem around project_dir.  A path is the sequence of its       *)
(* components: project_dir is  up/.../up/proj  with Depth ancestors, and   *)
(* its children are the names the scaffolder writes.                       *)
(***************************************************************************)
RECURSIVE Ups(_)
Ups(n) == IF n = 0 THEN << >> ELSE Append(Ups(n - 1), "up")

ProjPath == Append(Ups(Depth), "proj")

Ancestors == {SubSeq(ProjPath, 1, k) : k \in 1..Depth}

Names == {"data", "scripts", "reports", "README.md"}

Child(n) == Append(ProjPath, n)

Children == {Child(n) : n \in Names}

Paths == Ancestors \cup {ProjPath} \cup Children

Parent(path) == SubSeq(path, 1, Len(path) - 1)

\* a filesystem entry: its kind, and for a README the two values written in it
Absent == [kind |-> "none", ptype |-> "", created |-> 0]

DirNode == [kind |-> "dir", ptype |-> "", created |-> 0]

FileNode == [kind |-> "file", ptype |-> "", created |-> 0]

\* a symbolic link whose target does not exist
LinkNode == [kind |-> "link", ptype |-> "", created |-> 0]

ReadmeNode(t, time) == [kind |-> "file", ptype |-> t, created |-> time]

\* every entry lies in a directory
WellFormed(f) ==
    \A q \in Paths :
        (f[q].kind # "none" /\ Len(q) > 1) => f[Parent(q)].kind = "dir"

\* Path.exists(): stat() follows symbolic links, so a dangling link is absent
exists(f, path) == f[path].kind \in {"dir", "file"}

\* resolution of the directory a new entry is to be made in
RECURSIVE Resolve(_, _)
Resolve(f, dir) ==
    IF Len(dir) = 0 THEN "ok"
    ELSE LET up == Resolve(f, Parent(dir)) IN
         IF up # "ok" THEN up
         ELSE IF f[dir].kind = "dir" THEN "ok"
         ELSE IF f[dir].kind = "file" THEN "NotADirectoryError"
         ELSE "FileNotFoundError"

\* os.mkdir(path)
os_mkdir(f, path) ==
    LET r == Resolve(f, Parent(path)) IN
    IF r # "ok" THEN [err |-> r, fs |-> f]
    ELSE IF f[path].kind # "none" THEN [err |-> "FileExistsError", fs |-> f]
    ELSE [err |-> "", fs |-> [f EXCEPT ![path] = DirNode]]

\* Path.mkdir(parents=..., exist_ok=...)
RECURSIVE PathMkdir(_, _, _, _)
PathMkdir(f, path, parents, exist_ok) ==
    LET r == os_mkdir(f, path) IN
    IF r.err = "" THEN r
    ELSE IF r.err = "FileNotFoundError"
    THEN IF ~parents \/ Len(path) <= 1 THEN r
         ELSE LET pr == PathMkdir(f, Parent(path), TRUE, TRUE) IN
              IF pr.err # "" THEN pr
              ELSE PathMkdir(pr.fs, path, FALSE, exist_ok)
    ELSE IF exist_ok /\ f[path].kind = "dir" THEN [err |-> "", fs |-> f]
    ELSE r

\* open(path, 'w') followed by f.write(content)
open_w(f, path, node) ==
    LET r == Resolve(f, Parent(path)) IN
    IF r # "ok" THEN [err |-> r, fs |-> f]
    ELSE IF f[path].kind = "dir" THEN [err |-> "IsADirectoryError", fs |-> f]
    ELSE [err |-> "", fs |-> [f EXCEPT ![path] = node]]

IsUnder(q, root) == Len(q) >= Len(root) /\ SubSeq(q, 1, Len(root)) = root

\* shutil.rmtree(path): fails on anything that is not a directory
rmtree(f, path) ==
    IF f[path].kind = "dir"
    THEN [err |-> "",
          fs |-> [q \in Paths |-> IF IsUnder(q, path) THEN Absent ELSE f[q]]]
    ELSE IF f[path].kind = "file" THEN [err |-> "NotADirectoryError", fs |-> f]
    ELSE [err |-> "OSError", fs |-> f]

(***************************************************************************)
(* State.                                                                  *)
(***************************************************************************)
VARIABLES
    fs,        \* the filesystem around project_dir: Paths -> entry
    clock,     \* datetime.now(), in invocations started so far
    pc,        \* per invocation: the line of ab_project_create.py it is at
    argv,      \* per invocation: its command line
    idx,       \* per invocation: position in config['subdirs']
    success,   \* per invocation: create_project_structure's return value
    exitcode,  \* per invocation: the process's exit status (-1: running)
    listed,    \* per invocation: the (type, description) lines --list-types printed
    \* history of the invocation, read only by the properties
    inv,       \* per invocation: its number
    owner,     \* per path: the number of the invocation that created the entry
    fs0,       \* per invocation: the filesystem when create_project_structure was called
    oserr,     \* per invocation: an OSError was raised inside the try block
    cleanup,   \* per invocation: "none", "done" or "failed" (the rmtree)
    harmed     \* per invocation: entries it deleted or overwrote but had not created

svars == <<fs, clock, pc, argv, idx, success, exitcode, listed,
           inv, owner, fs0, oserr, cleanup, harmed>>

VARIABLES
    rpc,       \* generate_report.py: the step main is at
    rargv,     \* its command line: whether --input is given, --skip-analysis
    gnuplot,   \* whether `which gnuplot` finds the tool
    inkind,    \* what the --input path is: "none", "file" or "dir"
    out,       \* what the --output path is: "none", "dir" or "file"
    report,    \* what output/report.md is: "none", "file", "dir" or "template"
    gp,        \* the entries of the directory gnuplot/
    processed, \* the scripts generate_graphs has processed, in order
    rexit,     \* the process's exit status (-1: running)
    \* history of the run, read only by the properties
    rstage,    \* the step at which the run ended
    out0,      \* out when the run started
    report0    \* report when the run started

rvars == <<rpc, rargv, gnuplot, inkind, out, report, gp, processed, rexit,
           rstage, out0, report0>>

VARIABLES
    cpc,       \* mv2db.py: "call" before mvp_to_db is applied, "done" after
    cin,       \* the argument mvp, as the decimal m * 10^e
    cres       \* the outcome: an exception or the value returned

cvars == <<cpc, cin, cres>>

vars == <<svars, rvars, cvars>>

(***************************************************************************)
(* ab_project_create.py: main's argument parser.                           *)
(***************************************************************************)
\* the first positional is a type tag, registered or not; the others are paths
TypeTokens == DOMAIN PROJECT_TYPES \cup {"no_such_type"}

Positionals ==
    {<< >>} \cup {<<t>> : t \in TypeTokens}
            \cup {<<t, "proj">> : t \in TypeTokens}
            \cup {<<t, "proj", "proj">> : t \in TypeTokens}

Argvs == [pos : Positionals, list_types : BOOLEAN]

\* parser.parse_args(): both positionals are required, project_type is checked
\* against choices=PROJECT_TYPES.keys(); any error is argparse's exit status 2
parse_args(a) ==
    IF Len(a.pos) # 2 \/ a.pos[1] \notin DOMAIN PROJECT_TYPES
    THEN [error |-> TRUE, project_type |-> "", list_types |-> a.list_types]
    ELSE [error |-> FALSE, project_type |-> a.pos[1], list_types |-> a.list_types]

\* what --list-types prints
TypeListing == {<<t, PROJECT_TYPES[t].description>> : t \in DOMAIN PROJECT_TYPES}

(***************************************************************************)
(* History bookkeeping of one system call that turns filesystem f into g.  *)
(***************************************************************************)
Stamp(f, g, own, id) ==
    [q \in Paths |->
        IF g[q].kind = "none" THEN 0
        ELSE IF f[q].kind = "none" THEN id
        ELSE own[q]]

Harm(f, g, own, id) ==
    {q \in Paths : f[q].kind # "none" /\ g[q] # f[q] /\ own[q] # id}

Sys(p, g) ==
    /\ fs' = g
    /\ owner' = Stamp(fs, g, owner, inv[p])
    /\ harmed' = [harmed EXCEPT ![p] = @ \cup Harm(fs, g, owner, inv[p])]

\* an OS-level failure the environment may inject into a call (permissions,
\* disk full): at the call's first system call, or at its last one
Faults == {"none", "first", "last"}

(***************************************************************************)
(* ab_project_create.py: one invocation.                                   *)
(***************************************************************************)
InitScaffold ==
    /\ fs \in {f \in [Paths -> {Absent, DirNode, FileNode, LinkNode}] :
                 /\ WellFormed(f)
                 /\ \A q \in Paths : f[q].kind = "link" => q = ProjPath}
    /\ clock = 0
    /\ pc = [p \in Procs |-> "idle"]
    /\ argv = [p \in Procs |-> [pos |-> << >>, list_types |-> FALSE]]
    /\ idx = [p \in Procs |-> 0]
    /\ success = [p \in Procs |-> "none"]
    /\ exitcode = [p \in Procs |-> -1]
    /\ listed = [p \in Procs |-> {}]
    /\ inv = [p \in Procs |-> 0]
    /\ owner = [q \in Paths |-> 0]
    /\ fs0 = [p \in Procs |-> fs]
    /\ oserr = [p \in Procs |-> FALSE]
    /\ cleanup = [p \in Procs |-> "none"]
    /\ harmed = [p \in Procs |-> {}]

\* the shell starts the script (again)
Start(p) ==
    /\ UNCHANGED <<rvars, cvars>>
    /\ pc[p] \in {"idle", "exited"}
    /\ clock < MaxRuns
    /\ \E a \in Argvs : argv' = [argv EXCEPT ![p] = a]
    /\ clock' = clock + 1
    /\ inv' = [inv EXCEPT ![p] = clock + 1]
    /\ pc' = [pc EXCEPT ![p] = "main"]
    /\ idx' = [idx EXCEPT ![p] = 0]
    /\ success' = [success EXCEPT ![p] = "none"]
    /\ exitcode' = [exitcode EXCEPT ![p] = -1]
    /\ listed' = [listed EXCEPT ![p] = {}]
    /\ fs0' = [fs0 EXCEPT ![p] = fs]
    /\ oserr' = [oserr EXCEPT ![p] = FALSE]
    /\ cleanup' = [cleanup EXCEPT ![p] = "none"]
    /\ harmed' = [harmed EXCEPT ![p] = {}]
    /\ UNCHANGED <<fs, owner>>

\* main, up to the call of create_project_structure
Main(p) ==
    /\ UNCHANGED <<rvars, cvars>>
    /\ pc[p] = "main"
    /\ LET args == parse_args(argv[p]) IN
       IF args.error
       THEN /\ exitcode' = [exitcode EXCEPT ![p] = 2]
            /\ pc' = [pc EXCEPT ![p] = "exited"]
            /\ UNCHANGED listed
       ELSE IF args.list_types
       THEN /\ listed' = [listed EXCEPT ![p] = TypeListing]
            /\ exitcode' = [exitcode EXCEPT ![p] = 0]
            /\ pc' = [pc EXCEPT ![p] = "exited"]
       ELSE IF args.project_type \notin DOMAIN PROJECT_TYPES
       THEN /\ exitcode' = [exitcode EXCEPT ![p] = 1]
            /\ pc' = [pc EXCEPT ![p] = "exited"]
            /\ UNCHANGED listed
       ELSE /\ pc' = [pc EXCEPT ![p] = "create"]
            /\ UNCHANGED <<exitcode, listed>>
    /\ UNCHANGED <<fs, clock, argv, idx, success, inv, owner, fs0, oserr, cleanup,
                   harmed>>

\* Check without its test: the call goes on to mkdir whatever is at project_dir
Check_NoTest(p) ==
    /\ UNCHANGED <<rvars, cvars>>
    /\ pc[p] = "create"
    /\ fs0' = [fs0 EXCEPT ![p] = fs]
    /\ pc' = [pc EXCEPT ![p] = "mkroot"]
    /\ UNCHANGED <<fs, clock, argv, idx, success, exitcode, listed, inv, owner, oserr,
                   cleanup, harmed>>

\* create_project_structure: the existence check
Check(p) ==
    /\ UNCHANGED <<rvars, cvars>>
    /\ pc[p] = "create"
    /\ fs0' = [fs0 EXCEPT ![p] = fs]
    /\ IF exists(fs, ProjPath)
       THEN /\ success' = [success EXCEPT ![p] = "False"]
            /\ pc' = [pc EXCEPT ![p] = "return"]
       ELSE /\ pc' = [pc EXCEPT ![p] = "mkroot"]
            /\ UNCHANGED success
    /\ UNCHANGED <<fs, clock, argv, idx, exitcode, listed, inv, owner, oserr,
                   cleanup, harmed>>

\* project_path.mkdir(parents=True, exist_ok=False) under an injected fault
MkRootResult(f, fault) ==
    LET r == PathMkdir(f, ProjPath, TRUE, FALSE) IN
    IF fault = "none" \/ r.err # "" THEN r
    ELSE IF fault = "first" THEN [err |-> "OSError", fs |-> f]
    ELSE [err |-> "OSError", fs |-> [r.fs EXCEPT ![ProjPath] = f[ProjPath]]]

MkRoot(p) ==
    /\ UNCHANGED <<rvars, cvars>>
    /\ pc[p] = "mkroot"
    /\ \E fault \in Faults :
         LET r == MkRootResult(fs, fault) IN
         /\ Sys(p, r.fs)
         /\ IF r.err = ""
            THEN /\ pc' = [pc EXCEPT ![p] = "mksub"]
                 /\ idx' = [idx EXCEPT ![p] = 1]
                 /\ UNCHANGED oserr
            ELSE /\ pc' = [pc EXCEPT ![p] = "except"]
                 /\ oserr' = [oserr EXCEPT ![p] = TRUE]
                 /\ UNCHANGED idx
    /\ UNCHANGED <<clock, argv, success, exitcode, listed, inv, fs0, cleanup>>

\* the configuration of the invocation's project type
Config(p) == PROJECT_TYPES[parse_args(argv[p]).project_type]

\* subdir_path.mkdir(exist_ok=False) under an injected fault
MkSubResult(f, path, fault) ==
    IF fault = "none" THEN PathMkdir(f, path, FALSE, FALSE)
    ELSE [err |-> "OSError", fs |-> f]

\* MkSub with the loop ending one entry early
MkSub_OneShort(p) ==
    /\ UNCHANGED <<rvars, cvars>>
    /\ pc[p] = "mksub"
    /\ IF idx[p] > Len(Config(p).subdirs) - 1
       THEN /\ pc' = [pc EXCEPT ![p] = "readme"]
            /\ UNCHANGED <<fs, owner, harmed, idx, oserr>>
       ELSE \E fault \in Faults \ {"last"} :
              LET r == MkSubResult(fs, Child(Config(p).subdirs[idx[p]]), fault) IN
              /\ Sys(p, r.fs)
              /\ IF r.err = ""
                 THEN /\ idx' = [idx EXCEPT ![p] = @ + 1]
                      /\ UNCHANGED <<pc, oserr>>
                 ELSE /\ pc' = [pc EXCEPT ![p] = "except"]
                      /\ oserr' = [oserr EXCEPT ![p] = TRUE]
                      /\ UNCHANGED idx
    /\ UNCHANGED <<clock, argv, success, exitcode, listed, inv, fs0, cleanup>>

\* one turn of the loop over config['subdirs']
MkSub(p) ==
    /\ UNCHANGED <<rvars, cvars>>
    /\ pc[p] = "mksub"
    /\ IF idx[p] > Len(Config(p).subdirs)
       THEN /\ pc' = [pc EXCEPT ![p] = "readme"]
            /\ UNCHANGED <<fs, owner, harmed, idx, oserr>>
       ELSE \E fault \in Faults \ {"last"} :
              LET r == MkSubResult(fs, Child(Config(p).subdirs[idx[p]]), fault) IN
              /\ Sys(p, r.fs)
              /\ IF r.err = ""
                 THEN /\ idx' = [idx EXCEPT ![p] = @ + 1]
                      /\ UNCHANGED <<pc, oserr>>
                 ELSE /\ pc' = [pc EXCEPT ![p] = "except"]
                      /\ oserr' = [oserr EXCEPT ![p] = TRUE]
                      /\ UNCHANGED idx
    /\ UNCHANGED <<clock, argv, success, exitcode, listed, inv, fs0, cleanup>>

\* open(readme_path, 'w') and f.write(readme_content) under an injected fault:
\* "first" fails the open, "last" fails the write and leaves an empty file
ReadmeResult(f, t, time, fault) ==
    LET r == open_w(f, Child("README.md"), ReadmeNode(t, time)) IN
    IF fault = "none" \/ r.err # "" THEN r
    ELSE IF fault = "first" THEN [err |-> "OSError", fs |-> f]
    ELSE [err |-> "OSError", fs |-> [f EXCEPT ![Child("README.md")] = FileNode]]

WriteReadme(p) ==
    /\ UNCHANGED <<rvars, cvars>>
    /\ pc[p] = "readme"
    /\ \E fault \in Faults :
         LET r == ReadmeResult(fs, parse_args(argv[p]).project_type, clock, fault) IN
         /\ Sys(p, r.fs)
         /\ IF r.err = ""
            THEN /\ success' = [success EXCEPT ![p] = "True"]
                 /\ pc' = [pc EXCEPT ![p] = "return"]
                 /\ UNCHANGED oserr
            ELSE /\ pc' = [pc EXCEPT ![p] = "except"]
                 /\ oserr' = [oserr EXCEPT ![p] = TRUE]
                 /\ UNCHANGED success
    /\ UNCHANGED <<clock, argv, idx, exitcode, listed, inv, fs0, cleanup>>

\* Except with the test inverted: the partial tree is left behind
Except_Inverted(p) ==
    /\ UNCHANGED <<rvars, cvars>>
    /\ pc[p] = "except"
    /\ IF ~exists(fs, ProjPath)
       THEN /\ pc' = [pc EXCEPT ![p] = "rmtree"]
            /\ UNCHANGED success
       ELSE /\ success' = [success EXCEPT ![p] = "False"]
            /\ pc' = [pc EXCEPT ![p] = "return"]
    /\ UNCHANGED <<fs, clock, argv, idx, exitcode, listed, inv, owner, fs0, oserr,
                   cleanup, harmed>>

\* except OSError: the test whether something is there to clean up
Except(p) ==
    /\ UNCHANGED <<rvars, cvars>>
    /\ pc[p] = "except"
    /\ IF exists(fs, ProjPath)
       THEN /\ pc' = [pc EXCEPT ![p] = "rmtree"]
            /\ UNCHANGED success
       ELSE /\ success' = [success EXCEPT ![p] = "False"]
            /\ pc' = [pc EXCEPT ![p] = "return"]
    /\ UNCHANGED <<fs, clock, argv, idx, exitcode, listed, inv, owner, fs0, oserr,
                   cleanup, harmed>>

\* shutil.rmtree(project_path) under an injected fault, any exception swallowed
RmtreeResult(f, fault) ==
    IF fault = "none" THEN rmtree(f, ProjPath)
    ELSE [err |-> "OSError", fs |-> f]

Rmtree(p) ==
    /\ UNCHANGED <<rvars, cvars>>
    /\ pc[p] = "rmtree"
    /\ \E fault \in Faults \ {"last"} :
         LET r == RmtreeResult(fs, fault) IN
         /\ Sys(p, r.fs)
         /\ cleanup' = [cleanup EXCEPT ![p] = IF r.err = "" THEN "done" ELSE "failed"]
    /\ success' = [success EXCEPT ![p] = "False"]
    /\ pc' = [pc EXCEPT ![p] = "return"]
    /\ UNCHANGED <<clock, argv, idx, exitcode, listed, inv, fs0, oserr>>

\* sys.exit(0 if success else 1)
Exit(p) ==
    /\ UNCHANGED <<rvars, cvars>>
    /\ pc[p] = "return"
    /\ exitcode' = [exitcode EXCEPT ![p] = IF success[p] = "True" THEN 0 ELSE 1]
    /\ pc' = [pc EXCEPT ![p] = "exited"]
    /\ UNCHANGED <<fs, clock, argv, idx, success, listed, inv, owner, fs0, oserr,
                   cleanup, harmed>>

Invocation(p) ==
    \/ Start(p)
    \/ Main(p)
    \/ Check(p)
    \/ MkRoot(p)
    \/ MkSub(p)
    \/ WriteReadme(p)
    \/ Except(p)
    \/ Rmtree(p)
    \/ Exit(p)

(***************************************************************************)
(* generate_report.py.                                                     *)
(***************************************************************************)
\* largest number of scripts in gnuplot/
MaxScripts == 3

\* the entries gnuplot/ may hold: script files, each named by its rank in the
\* sorted order of the names, and one file that is not a script
DirEntries ==
    [rank : 1..MaxScripts, ext : {"gp"}] \cup {[rank |-> 0, ext |-> "dat"]}

\* the orders in which a directory listing may return the set S of entries
Listings(S) ==
    {l \in [1..Cardinality(S) -> S] : \A i, j \in DOMAIN l : i # j => l[i] # l[j]}

IsScript(entry) == entry.ext = "gp"

\* Path('gnuplot').glob('*.gp'): the matches, in the order of the listing
glob(listing) == SelectSeq(listing, IsScript)

\* check_dependencies that never reports a missing tool
check_dependencies_Blind(found) == TRUE

\* check_dependencies(): `which gnuplot` returns 0 exactly when the tool is found
check_dependencies(found) == found

\* os.path.isfile(args.input)
isfile(kind) == kind = "file"

\* os.makedirs(output_dir, exist_ok=True)
makedirs(kind) ==
    IF kind = "file" THEN [err |-> "FileExistsError", out |-> kind]
    ELSE [err |-> "", out |-> "dir"]

\* open(os.path.join(output_dir, 'report.md'), 'w') and the three writes
open_report(dir, rep) ==
    IF dir = "none" THEN [err |-> "FileNotFoundError", report |-> rep]
    ELSE IF dir = "file" THEN [err |-> "NotADirectoryError", report |-> rep]
    ELSE IF rep = "dir" THEN [err |-> "IsADirectoryError", report |-> rep]
    ELSE [err |-> "", report |-> "template"]

InitReport ==
    /\ rpc = "main"
    /\ rargv \in [has_input : BOOLEAN, skip_analysis : BOOLEAN]
    /\ gnuplot \in BOOLEAN
    /\ inkind \in {"none", "file", "dir"}
    /\ out \in {"none", "dir", "file"}
    /\ report \in IF out = "dir" THEN {"none", "file", "dir"} ELSE {"none"}
    /\ gp \in SUBSET DirEntries
    /\ processed = << >>
    /\ rexit = -1
    /\ rstage = ""
    /\ out0 = out
    /\ report0 = report

\* the run ends at step `stage` with exit status `code`
Ends(stage, code) ==
    /\ rpc' = "exited"
    /\ rstage' = stage
    /\ rexit' = code

\* parser.parse_args(): --input is required
ParseArgs ==
    /\ rpc = "main"
    /\ IF rargv.has_input
       THEN /\ rpc' = "deps"
            /\ UNCHANGED <<rstage, rexit>>
       ELSE Ends("main", 2)
    /\ UNCHANGED <<rargv, gnuplot, inkind, out, report, gp, processed, out0, report0>>
    /\ UNCHANGED <<svars, cvars>>

\* if not check_dependencies(): sys.exit(1)
CheckDeps ==
    /\ rpc = "deps"
    /\ IF check_dependencies(gnuplot)
       THEN /\ rpc' = "input"
            /\ UNCHANGED <<rstage, rexit>>
       ELSE Ends("deps", 1)
    /\ UNCHANGED <<rargv, gnuplot, inkind, out, report, gp, processed, out0, report0>>
    /\ UNCHANGED <<svars, cvars>>

\* if not os.path.isfile(args.input): sys.exit(1)
CheckInput ==
    /\ rpc = "input"
    /\ IF isfile(inkind)
       THEN /\ rpc' = IF rargv.skip_analysis THEN "graphs" ELSE "analysis"
            /\ UNCHANGED <<rstage, rexit>>
       ELSE Ends("input", 1)
    /\ UNCHANGED <<rargv, gnuplot, inkind, out, report, gp, processed, out0, report0>>
    /\ UNCHANGED <<svars, cvars>>

\* run_analysis: an exception of makedirs is not caught, the interpreter exits 1
RunAnalysis ==
    /\ rpc = "analysis"
    /\ LET r == makedirs(out) IN
       /\ out' = r.out
       /\ IF r.err = ""
          THEN /\ rpc' = "graphs"
               /\ UNCHANGED <<rstage, rexit>>
          ELSE Ends("analysis", 1)
    /\ UNCHANGED <<rargv, gnuplot, inkind, report, gp, processed, out0, report0>>
    /\ UNCHANGED <<svars, cvars>>

\* generate_graphs: the loop over the matches of the glob
GenerateGraphs ==
    /\ rpc = "graphs"
    /\ \E listing \in Listings(gp) : processed' = glob(listing)
    /\ rpc' = "report"
    /\ UNCHANGED <<rargv, gnuplot, inkind, out, report, gp, rexit, rstage, out0, report0>>
    /\ UNCHANGED <<svars, cvars>>

\* create_report, then the end of main: an exception of open is not caught
CreateReport ==
    /\ rpc = "report"
    /\ LET r == open_report(out, report) IN
       /\ report' = r.report
       /\ IF r.err = "" THEN Ends("end", 0) ELSE Ends("report", 1)
    /\ UNCHANGED <<rargv, gnuplot, inkind, out, gp, processed, out0, report0>>
    /\ UNCHANGED <<svars, cvars>>

(***************************************************************************)
(* mv2db.py.  A sensitivity is the decimal  m * 10^e;  the positive        *)
(* arguments are the powers of ten, whose logarithm is exact.              *)
(***************************************************************************)
\* largest magnitude of the mantissa of a non-positive argument
MaxMant == 9
\* largest magnitude of the decimal exponent of an argument
MaxExp == 3

Sensitivities ==
    [m : (-MaxMant..0) \cup {1}, e : -MaxExp..MaxExp]

\* mvp / 1000
DivThousand(x) == [m |-> x.m, e |-> x.e - 3]

\* a logarithm that returns values outside the domain instead of raising
log10_NonFinite(x) ==
    IF x.m = 0 THEN [status |-> "-inf", value |-> 0]
    ELSE IF x.m < 0 THEN [status |-> "nan", value |-> 0]
    ELSE [status |-> "ok", value |-> x.e]

\* math.log10(x): a ValueError outside the domain, as an exception
log10(x) ==
    IF x.m <= 0 THEN [status |-> "ValueError", value |-> 0]
    ELSE [status |-> "ok", value |-> x.e]

\* round(dB, 2), in hundredths of a dB
round2(dB) == 100 * dB

\* mvp_to_db(mvp): the exception of log10 propagates
mvp_to_db(mvp) ==
    LET l == log10(DivThousand(mvp)) IN
    IF l.status # "ok" THEN l
    ELSE [status |-> "ok", value |-> round2(20 * l.value)]

InitConv ==
    /\ cpc = "call"
    /\ cin \in Sensitivities
    /\ cres = [status |-> "none", value |-> 0]

CallMvpToDb ==
    /\ cpc = "call"
    /\ cres' = mvp_to_db(cin)
    /\ cpc' = "done"
    /\ UNCHANGED cin
    /\ UNCHANGED <<svars, rvars>>

(***************************************************************************)
(* Specifications.  Each fixes the components it does not run.             *)
(***************************************************************************)
ScaffoldParked ==
    /\ fs = [q \in Paths |-> Absent]
    /\ clock = 0
    /\ pc = [p \in Procs |-> "idle"]
    /\ argv = [p \in Procs |-> [pos |-> << >>, list_types |-> FALSE]]
    /\ idx = [p \in Procs |-> 0]
    /\ success = [p \in Procs |-> "none"]
    /\ exitcode = [p \in Procs |-> -1]
    /\ listed = [p \in Procs |-> {}]
    /\ inv = [p \in Procs |-> 0]
    /\ owner = [q \in Paths |-> 0]
    /\ fs0 = [p \in Procs |-> fs]
    /\ oserr = [p \in Procs |-> FALSE]
    /\ cleanup = [p \in Procs |-> "none"]
    /\ harmed = [p \in Procs |-> {}]

ReportParked ==
    /\ rpc = "exited"
    /\ rargv = [has_input |-> FALSE, skip_analysis |-> FALSE]
    /\ gnuplot = FALSE
    /\ inkind = "none"
    /\ out = "none"
    /\ report = "none"
    /\ gp = {}
    /\ processed = << >>
    /\ rexit = -1
    /\ rstage = ""
    /\ out0 = "none"
    /\ report0 = "none"

ConvParked ==
    /\ cpc = "done"
    /\ cin = [m |-> 1, e |-> 0]
    /\ cres = [status |-> "none", value |-> 0]

\* one scaffolder invocation at a time: a call, then perhaps a second call
InitSeq == InitScaffold /\ ReportParked /\ ConvParked

NextSeq == Invocation(1)

SpecSeq == InitSeq /\ [][NextSeq]_vars

\* two scaffolder invocations at the same time
NextRace == \E p \in Procs : Invocation(p)

SpecRace == InitSeq /\ [][NextRace]_vars

\* one run of the report orchestrator
InitRun == InitReport /\ ScaffoldParked /\ ConvParked

NextReport ==
    \/ ParseArgs
    \/ CheckDeps
    \/ CheckInput
    \/ RunAnalysis
    \/ GenerateGraphs
    \/ CreateReport

SpecReport == InitRun /\ [][NextReport]_vars

\* one call of the converter
InitCall == InitConv /\ ScaffoldParked /\ ReportParked

NextConv == CallMvpToDb

SpecConv == InitCall /\ [][NextConv]_vars

(***************************************************************************)
(* Properties of the scaffolder.                                           *)
(***************************************************************************)
\* create_project_structure was called by invocation p and has returned
Returned(p) == pc[p] \in {"return", "exited"} /\ success[p] # "none"

\* the entries that exist and were created by invocation p
MadeBy(p) == {q \in Paths : fs[q].kind # "none" /\ owner[q] = inv[p]}

\* the tree of a project of type t: the root, its subdirectories, README.md
Tree(t) ==
    {ProjPath} \cup {Child("README.md")}
        \cup {Child(PROJECT_TYPES[t].subdirs[i]) :
                i \in 1..Len(PROJECT_TYPES[t].subdirs)}

TypeOf(p) == parse_args(argv[p]).project_type

\* the tree of type t stands complete in filesystem f
Complete(f, t) ==
    /\ f[ProjPath].kind = "dir"
    /\ \A i \in 1..Len(PROJECT_TYPES[t].subdirs) :
         f[Child(PROJECT_TYPES[t].subdirs[i])].kind = "dir"
    /\ f[Child("README.md")].kind = "file"
    /\ f[Child("README.md")].ptype = t

MissingAncestors(f) == {a \in Ancestors : f[a].kind = "none"}

\* C1: a call on a project_dir that exists as a file or as a directory
\* returns False and leaves the filesystem exactly as it was.
C1_ExistingTargetUntouched ==
    \A p \in Procs :
        (Returned(p) /\ fs0[p][ProjPath].kind \in {"file", "dir"})
            => (success[p] = "False" /\ fs = fs0[p])

\* a second call has failed on the tree the first call scaffolded
C1_Witness ==
    /\ Returned(1)
    /\ inv[1] = 2
    /\ success[1] = "False"
    /\ owner[ProjPath] = 1
    /\ Complete(fs, "device_report")
    /\ fs[Child("README.md")].created = 1

\* C2 as stated: a call on a path that does not exist, with no OS error,
\* returns True and creates exactly len(subdirs) + 2 entries, the root, the
\* subdirectories and README.md, and no other entry.
C2_ExactlyTheTree ==
    \A p \in Procs :
        (Returned(p) /\ fs0[p][ProjPath].kind = "none" /\ ~oserr[p])
            => /\ success[p] = "True"
               /\ MadeBy(p) = Tree(TypeOf(p))
               /\ Cardinality(MadeBy(p)) = Len(PROJECT_TYPES[TypeOf(p)].subdirs) + 2

\* C2 amended: a call on a path that does not exist, with no OS error, returns
\* True and creates exactly len(subdirs) + 2 entries at and under project_dir,
\* the root, the subdirectories and README.md, plus one directory for every
\* ancestor of project_dir that was missing; every other entry is unchanged.
C2_TreeAndMissingAncestors ==
    \A p \in Procs :
        (Returned(p) /\ fs0[p][ProjPath].kind = "none" /\ ~oserr[p])
            => /\ success[p] = "True"
               /\ MadeBy(p) = Tree(TypeOf(p)) \cup MissingAncestors(fs0[p])
               /\ Cardinality(MadeBy(p) \ Ancestors)
                    = Len(PROJECT_TYPES[TypeOf(p)].subdirs) + 2
               /\ Complete(fs, TypeOf(p))
               /\ \A a \in MissingAncestors(fs0[p]) : fs[a] = DirNode
               /\ \A q \in Paths \ MadeBy(p) : fs[q] = fs0[p][q]

\* a call has succeeded on a path none of whose ancestors existed
C2_Witness ==
    /\ Returned(1)
    /\ success[1] = "True"
    /\ MissingAncestors(fs0[1]) = Ancestors
    /\ Ancestors # {}
    /\ Cardinality(MadeBy(1)) = Len(PROJECT_TYPES["device_report"].subdirs) + 2 + Depth

\* C3 as stated: when a creation step fails with an OS error the call returns
\* False and, unless the cleanup failed, no entry exists at project_dir.
C3_NothingLeftAtProjectDir ==
    \A p \in Procs :
        (Returned(p) /\ oserr[p])
            => /\ success[p] = "False"
               /\ cleanup[p] # "failed" => fs[ProjPath].kind = "none"

\* C3 amended: when a creation step fails with an OS error the call returns
\* False and, unless the cleanup failed, no file or directory exists at
\* project_dir and nothing exists under it; the one entry that can remain is
\* a dangling symbolic link that was at project_dir before the call, unchanged.
C3_PartialTreeRemoved ==
    \A p \in Procs :
        (Returned(p) /\ oserr[p])
            => /\ success[p] = "False"
               /\ cleanup[p] # "failed" =>
                    /\ ~exists(fs, ProjPath)
                    /\ \A q \in Children : fs[q].kind = "none"
                    /\ \/ fs[ProjPath].kind = "none"
                       \/ /\ fs0[p][ProjPath].kind = "link"
                          /\ fs[ProjPath] = fs0[p][ProjPath]

\* a call has failed after it made the root and a subdirectory, and its
\* cleanup has removed them
C3_Witness ==
    /\ Returned(1)
    /\ oserr[1]
    /\ idx[1] >= 2
    /\ cleanup[1] = "done"
    /\ success[1] = "False"
    /\ fs[ProjPath].kind = "none"

\* C4: with both positionals given and without --list-types, the process
\* exits 0 exactly when the project was created and 1 on every failure, the
\* unregistered project type included.
C4_ExitCodes ==
    \A p \in Procs :
        (pc[p] = "exited" /\ ~argv[p].list_types /\ Len(argv[p].pos) = 2)
            => /\ exitcode[p] = 0 <=> success[p] = "True"
               /\ success[p] # "True" => exitcode[p] = 1

\* C5: with --list-types, given alone or with a valid project_type and
\* project_dir, the process prints every registered type with its description,
\* exits 0 and changes nothing in the filesystem.
C5_ListTypes ==
    \A p \in Procs :
        (/\ pc[p] = "exited"
         /\ argv[p].list_types
         /\ \/ argv[p].pos = << >>
            \/ Len(argv[p].pos) = 2 /\ argv[p].pos[1] \in DOMAIN PROJECT_TYPES)
            => /\ exitcode[p] = 0
               /\ listed[p] = TypeListing
               /\ fs = fs0[p]

\* C10: under every interleaving of two invocations on the same project_dir,
\* no invocation deletes or overwrites an entry it did not create, and the
\* tree of an invocation that returned True stands complete once the other
\* invocation has ended.
C10_NoForeignDamage ==
    /\ \A p \in Procs : harmed[p] = {}
    /\ \A p, q \in Procs :
         (p # q /\ pc[p] = "exited" /\ success[p] = "True" /\ pc[q] = "exited")
            => Complete(fs, TypeOf(p))

(***************************************************************************)
(* Properties of the report orchestrator.                                  *)
(***************************************************************************)
\* C6: when gnuplot is not found or --input is not a regular file, the run
\* never creates the output directory nor writes report.md and ends with a
\* non-zero status; a missing gnuplot ends it at the dependency check, with
\* status 1, even when the input file is valid.
C6_HardAborts ==
    (~gnuplot \/ inkind # "file")
        => /\ out = out0
           /\ report = report0
           /\ processed = << >>
           /\ rpc \notin {"analysis", "graphs", "report"}
           /\ rpc = "exited" =>
                /\ rexit \in {1, 2}
                /\ (rargv.has_input /\ ~gnuplot) => (rstage = "deps" /\ rexit = 1)
                /\ (rargv.has_input /\ gnuplot) => (rstage = "input" /\ rexit = 1)

\* a run with a valid input file has been aborted for the missing gnuplot
C6_Witness ==
    /\ rpc = "exited"
    /\ rargv.has_input
    /\ ~gnuplot
    /\ inkind = "file"
    /\ rstage = "deps"
    /\ rexit = 1
    /\ out = "none"

\* C7: with gnuplot found and --input a regular file, whatever --skip-analysis
\* is and whether the output directory existed or not, the run ends with
\* status 0 and report.md written with the template.
C7_ReportAlwaysWritten ==
    (/\ rpc = "exited"
     /\ rargv.has_input
     /\ gnuplot
     /\ inkind = "file"
     /\ out0 \in {"none", "dir"}
     /\ report0 \in {"none", "file"})
        => (rexit = 0 /\ out = "dir" /\ report = "template")

\* the sequence is in increasing order of the names
IsSorted(seq) == \A i, j \in DOMAIN seq : i < j => seq[i].rank < seq[j].rank

\* C8: generate_graphs processes the scripts gnuplot/*.gp in sorted order,
\* whatever order the directory listing returns them in.
C8_SortedOrder ==
    rpc = "report"
        => /\ {processed[i] : i \in DOMAIN processed} = {e \in gp : IsScript(e)}
           /\ IsSorted(processed)

(***************************************************************************)
(* Properties of the converter.                                            *)
(***************************************************************************)
\* C9: mvp_to_db of 0 or of a negative value fails with a domain error: it
\* returns no value, in particular no NaN and no infinity.
C9_DomainError ==
    (cpc = "done" /\ cin.m <= 0) => cres = [status |-> "ValueError", value |-> 0]

\* mvp_to_db has been applied to 0, and to nothing else, and has raised
C9_Witness ==
    /\ cpc = "done"
    /\ cin.m = 0
    /\ cres.status = "ValueError"
====
